---- MODULE Spec2Model ----
(***************************************************************************)
(* Model of the NyayAI backend: the Gemini client's bounded-retry          *)
(* _generate (backend/services/gemini_enhanced.py) and the upload handler  *)
(* (backend/main.py) with the extractor's entry checks                     *)
(* (backend/services/ocr.py).                                              *)
(*                                                                         *)
(* Strings are modelled as sequences of tokens: a fixed piece of text is   *)
(* one token, a response text is a sequence of one-character tokens, so    *)
(* that concatenation, strip() and "contains" are computed.                *)
(***************************************************************************)
EXTENDS Integers, Sequences, FiniteSets, TLC

\* ------------------------------------------------------------------------
\* Bounds of the model
\* ------------------------------------------------------------------------
MaxRetriesBound == 3
MaxTextLen == 2

\* ------------------------------------------------------------------------
\* Strings
\* ------------------------------------------------------------------------
Chars == {" ", "a"}

\* the whitespace characters that occur
IsSpace(ch) == ch \in {" ", "\n"}

RECURSIVE LStrip(_)
LStrip(s) == IF s # <<>> /\ IsSpace(Head(s)) THEN LStrip(Tail(s)) ELSE s

RECURSIVE RStrip(_)
RStrip(s) ==
    IF s # <<>> /\ IsSpace(s[Len(s)])
    THEN RStrip(SubSeq(s, 1, Len(s) - 1)) ELSE s

\* str.strip()
StripNoop(s) == s
Strip(s) == RStrip(LStrip(s))

Contains(s, tok) == \E i \in 1..Len(s) : s[i] = tok

\* ------------------------------------------------------------------------
\* GeminiClient._generate
\* ------------------------------------------------------------------------
GEMINI_API_BASE == "https://generativelanguage.googleapis.com/v1beta/models"
DefaultMaxRetries == 3

ConfigSentinel == <<"[Gemini API key not configured. Set GOOGLE_API_KEY in .env]">>
RateLimitSentinel == <<"[Rate limit exceeded. Please wait a moment and try again.]">>
NoResponseSentinel == <<"[No response from Gemini. Please try again.]">>
NoTextSentinel == <<"[No text content from Gemini. Please try again.]">>
TimeoutSentinel == <<"[Request timeout. Please try again with a shorter document.]">>
NetworkSentinel == <<"[Network error. Please wait a moment and try again.]">>
FailedSentinel ==
    <<"[Failed after multiple attempts. Please wait a few minutes and try again.]">>
ErrorSentinel(msg) == <<"[Error: ">> \o msg \o <<". Please try again.]">>

FixedSentinels ==
    {ConfigSentinel, RateLimitSentinel, NoResponseSentinel, NoTextSentinel,
     TimeoutSentinel, NetworkSentinel, FailedSentinel}

SentinelTokens ==
    {s[1] : s \in FixedSentinels} \cup {"[Error: ", ". Please try again.]"}

\* The api_key values a client can be constructed with; None and "" are falsy.
NoneKey == "<None>"
ApiKeys == {NoneKey, "", "key-A", "key-B"}
FalsyNoneOnly(k) == k = NoneKey
Falsy(k) == k \in {NoneKey, ""}

Models == {"gemini-2.0-flash-exp"}

\* url = f"{GEMINI_API_BASE}/{self.model}:generateContent?key={self.api_key}"
Url(model, key) ==
    <<GEMINI_API_BASE, "/", model, ":generateContent", "?", "key=", key>>

\* What one requests.post + raise_for_status + json() + parsing can yield.
\*   R429         status 429
\*   HttpError    any other 4xx/5xx status (raise_for_status raises HTTPError)
\*   Timeout      requests.exceptions.Timeout
\*   ConnError    another RequestException raised by requests.post
\*   BadJson      resp.json() fails on a malformed body
\*   BadShape     the body parses but has the wrong shape (data is not an
\*                object, "text" is not a string, ...)
\*   NoCandidates 2xx, "candidates" missing or empty
\*   NoParts      2xx, first candidate has no content parts
\*   Content      2xx, non-empty candidates and parts
Outcomes ==
    {"R429", "HttpError", "Timeout", "ConnError", "BadJson", "BadShape",
     "NoCandidates", "NoParts", "Content"}

\* Exception classes and the except clauses, in the order of the source.
\* resp.json() raises requests.exceptions.JSONDecodeError (a RequestException)
\* with requests >= 2.27 and a plain ValueError with older versions.
RaisedClasses(o) ==
    CASE o = "HttpError" -> {"HTTPError"}
      [] o = "Timeout"   -> {"Timeout"}
      [] o = "ConnError" -> {"ConnectionError"}
      [] o = "BadJson"   -> {"RequestsJSONDecodeError", "ValueError"}
      [] o = "BadShape"  -> {"AttributeError"}
      [] OTHER           -> {"none"}

IsTimeout(c) == c = "Timeout"
IsRequestExceptionConnOnly(c) == c \in {"Timeout", "ConnectionError"}
IsRequestException(c) ==
    c \in {"Timeout", "HTTPError", "ConnectionError", "RequestsJSONDecodeError"}
IsException(c) == c # "none"

\* str(e) of the exception raised
ExcMessage(c, model, key) ==
    CASE c = "HTTPError" ->
            <<"500 Server Error: Internal Server Error for url: ">> \o Url(model, key)
      [] c = "ConnectionError" ->
            <<"HTTPSConnectionPool: Max retries exceeded with url: ">> \o Url(model, key)
      [] c = "Timeout" -> <<"Read timed out. (read timeout=90)">>
      [] c = "RequestsJSONDecodeError" -> <<"Expecting value: line 1 column 1 (char 0)">>
      [] c = "ValueError" -> <<"Expecting value: line 1 column 1 (char 0)">>
      [] c = "AttributeError" -> <<"object has no attribute 'get'">>
      [] OTHER -> <<>>

\* The branch of the loop body that handles an attempt.
BranchNoCatchAll(o, c) ==
    CASE o = "R429"         -> "rate_limit"
      [] o = "NoCandidates" -> "no_candidates"
      [] o = "NoParts"      -> "no_parts"
      [] o = "Content"      -> "success"
      [] IsTimeout(c)       -> "timeout"
      [] IsRequestException(c) -> "request_exception"
      [] OTHER              -> "escape"

Branch(o, c) ==
    CASE o = "R429"         -> "rate_limit"
      [] o = "NoCandidates" -> "no_candidates"
      [] o = "NoParts"      -> "no_parts"
      [] o = "Content"      -> "success"
      [] IsTimeout(c)       -> "timeout"
      [] IsRequestException(c) -> "request_exception"
      [] IsException(c)     -> "exception"
      [] OTHER              -> "escape"

\* if attempt < max_retries - 1: sleep and continue, else return
MoreAttemptsOffByOne(a, mr) == a < mr
MoreAttemptsAlways(a, mr) == TRUE
MoreAttempts(a, mr) == a < mr - 1

\* The argument of time.sleep in each branch.
WaitTimeFlat(b, a) == 2 ^ a
WaitTime(b, a) ==
    IF b \in {"rate_limit", "request_exception"} THEN (2 ^ a) * 2 ELSE 2 ^ a

\* error_msg = str(e).split('?')[0] if '?' in str(e) else str(e)
RECURSIVE SplitFirst(_, _)
SplitFirst(s, sep) ==
    IF s = <<>> \/ Head(s) = sep THEN <<>>
    ELSE <<Head(s)>> \o SplitFirst(Tail(s), sep)

\* The value returned by a branch on the last attempt.
ExhaustedLeaky(b, msg) ==
    CASE b = "rate_limit"        -> RateLimitSentinel
      [] b = "no_candidates"     -> NoResponseSentinel
      [] b = "no_parts"          -> NoTextSentinel
      [] b = "timeout"           -> TimeoutSentinel
      [] b = "request_exception" -> <<"[Network error: ">> \o msg \o <<"]">>
      [] OTHER                   -> ErrorSentinel(msg)

ExhaustedGeneric(b, msg) == FailedSentinel

ExhaustedMerged(b, msg) ==
    CASE b = "rate_limit"        -> RateLimitSentinel
      [] b = "no_candidates"     -> NoResponseSentinel
      [] b = "no_parts"          -> NoResponseSentinel
      [] b = "timeout"           -> TimeoutSentinel
      [] b = "request_exception" -> NetworkSentinel
      [] OTHER                   -> ErrorSentinel(msg)

Exhausted(b, msg) ==
    CASE b = "rate_limit"        -> RateLimitSentinel
      [] b = "no_candidates"     -> NoResponseSentinel
      [] b = "no_parts"          -> NoTextSentinel
      [] b = "timeout"           -> TimeoutSentinel
      [] b = "request_exception" ->
            LET error_msg == SplitFirst(msg, "?") IN NetworkSentinel
      [] OTHER                   -> ErrorSentinel(msg)

\* parts[0].get("text", "") of a Content response: the text, or "" when the
\* part has no "text" key.
RECURSIVE SeqsUpTo(_)
SeqsUpTo(n) ==
    IF n = 0 THEN {<<>>}
    ELSE LET shorter == SeqsUpTo(n - 1)
         IN shorter \cup {Append(s, ch) : s \in shorter, ch \in Chars}

Texts == SeqsUpTo(MaxTextLen)

Prompts == {"p1", "p2"}
Temperatures == {1, 3}      \* tenths: 0.1, 0.3

VARIABLES
    apiKey,       \* self.api_key
    model,        \* self.model
    prompt, temperature, maxRetries,   \* the call's arguments
    gpc,          \* "start", "loop", "done"
    attempt,      \* the loop variable
    requests,     \* number of requests.post calls issued
    outcomes,     \* outcome of each request, in order: [kind, exc]
    respText,     \* parts[0].get("text", "") of the response that had content
    slept,        \* the arguments of time.sleep, in order
    result,       \* the returned string
    raised        \* TRUE when an exception left _generate

gvars == <<apiKey, model, prompt, temperature, maxRetries, gpc, attempt,
           requests, outcomes, respText, slept, result, raised>>

\* State of the upload handler: one entry per request.
VARIABLES
    fs,           \* UPLOAD_DIR: path -> [owner, bytes]
    upc,          \* position of each request's handler
    ufile,        \* the UploadFile: [filename, size = len(content) once read]
    fileId,       \* file_id = str(uuid.uuid4())
    savedPath,    \* saved_path
    opened,       \* open(saved_path, "wb") was executed by the request
    extractCalled,\* extract_text_from_file was called by the request
    removeFailed, \* os.remove(saved_path) raised (and was swallowed)
    pending,      \* the response or exception on its way out of the handler
    response      \* what the client received

uvars == <<fs, upc, ufile, fileId, savedPath, opened, extractCalled,
           removeFailed, pending, response>>

\* A call of one of the pure functions (extract_text_from_file,
\* classify_legal, detect_language): its argument and what it returned.
VARIABLES
    arg,          \* the argument of the call
    ret,          \* the value returned or the exception raised
    fpc           \* "idle", "call", "done"

pvars == <<arg, ret, fpc>>

\* State of one /api/chat request.
VARIABLES
    cmsgs,        \* req.messages: sequence of [role, content]
    clang,        \* req.language
    cpc,          \* "idle", "recv", "generating", "done"
    gateCalls,    \* the arguments classify_legal was called with, in order
    textCalls,    \* the [prompt, temperature] of each _gemini.text call
    creply        \* the response of the handler

cvars == <<cmsgs, clang, cpc, gateCalls, textCalls, creply>>

\* State of one /health request.
VARIABLES
    hpc,          \* "idle", "validating", "done"
    apiValid,     \* api_valid = _gemini.validate_api_key()
    hresp         \* the JSON body returned

hvars == <<hpc, apiValid, hresp>>

\* State of the /api/export/pdf handler: one entry per request.
VARIABLES
    edir,         \* the exported files of UPLOAD_DIR: filename -> bytes
    epc,          \* "idle", "respond", "done"
    ereq,         \* the request body: [content, filename]
    epath,        \* path, the file the FileResponse will send
    eserved       \* the bytes the client received

evars == <<edir, epc, ereq, epath, eserved>>

vars == <<gvars, uvars, pvars, cvars, hvars, evars>>

\* What an action of one component leaves alone.
nonGen == <<uvars, pvars, cvars, hvars, evars>>
nonUp == <<gvars, pvars, cvars, hvars, evars>>
nonPure == <<gvars, uvars, cvars, hvars, evars>>

NoResult == <<"<no result>">>

GenInit ==
    /\ apiKey \in ApiKeys
    /\ model \in Models
    /\ prompt \in Prompts
    /\ temperature \in Temperatures
    /\ maxRetries \in 0..MaxRetriesBound
    /\ gpc = "start"
    /\ attempt = 0
    /\ requests = 0
    /\ outcomes = <<>>
    /\ respText = <<>>
    /\ slept = <<>>
    /\ result = NoResult
    /\ raised = FALSE

\* line 19-20: if not self.api_key: return "[Gemini API key not configured...]"
GenNoKey ==
    /\ UNCHANGED nonGen
    /\ gpc = "start"
    /\ Falsy(apiKey)
    /\ result' = ConfigSentinel
    /\ gpc' = "done"
    /\ UNCHANGED <<apiKey, model, prompt, temperature, maxRetries, attempt,
                   requests, outcomes, respText, slept, raised>>

\* line 22-44: build url and payload, enter the loop
GenEnterLoop ==
    /\ UNCHANGED nonGen
    /\ gpc = "start"
    /\ ~Falsy(apiKey)
    /\ gpc' = "loop"
    /\ attempt' = 0
    /\ UNCHANGED <<apiKey, model, prompt, temperature, maxRetries,
                   requests, outcomes, respText, slept, result, raised>>

\* One iteration of the for loop (lines 44-92) that fails: the request, the
\* branch taken, and either the sleep + continue or the return.
GenAttemptFail ==
    /\ UNCHANGED nonGen
    /\ gpc = "loop"
    /\ attempt < maxRetries
    /\ \E o \in Outcomes \ {"Content"} : \E c \in RaisedClasses(o) :
         LET b == Branch(o, c)
             msg == ExcMessage(c, model, apiKey)
         IN /\ requests' = requests + 1
            /\ outcomes' = Append(outcomes, [kind |-> o, exc |-> c])
            /\ IF b = "escape"
               THEN /\ raised' = TRUE
                    /\ gpc' = "done"
                    /\ UNCHANGED <<attempt, slept, result>>
               ELSE IF MoreAttempts(attempt, maxRetries)
               THEN /\ slept' = Append(slept, WaitTime(b, attempt))
                    /\ attempt' = attempt + 1
                    /\ UNCHANGED <<gpc, result, raised>>
               ELSE /\ result' = Exhausted(b, msg)
                    /\ gpc' = "done"
                    /\ UNCHANGED <<attempt, slept, raised>>
    /\ UNCHANGED <<apiKey, model, prompt, temperature, maxRetries, respText>>

\* One iteration that gets content: return parts[0].get("text", "").strip()
GenAttemptContent ==
    /\ UNCHANGED nonGen
    /\ gpc = "loop"
    /\ attempt < maxRetries
    /\ \E t \in Texts :
         /\ requests' = requests + 1
         /\ outcomes' = Append(outcomes, [kind |-> "Content", exc |-> "none"])
         /\ respText' = t
         /\ result' = Strip(t)
         /\ gpc' = "done"
    /\ UNCHANGED <<apiKey, model, prompt, temperature, maxRetries, attempt,
                   slept, raised>>

\* line 94: the loop ran out of iterations
GenLoopExit ==
    /\ UNCHANGED nonGen
    /\ gpc = "loop"
    /\ attempt >= maxRetries
    /\ result' = FailedSentinel
    /\ gpc' = "done"
    /\ UNCHANGED <<apiKey, model, prompt, temperature, maxRetries, attempt,
                   requests, outcomes, respText, slept, raised>>

\* ------------------------------------------------------------------------
\* The extractor (backend/services/ocr.py)
\* ------------------------------------------------------------------------
MaxPages == 2
MinTextChars == 10

Rep(ch, n) == [i \in 1..n |-> ch]

\* "\n".join(parts)
RECURSIVE Join(_)
Join(parts) ==
    IF parts = <<>> THEN <<>>
    ELSE IF Len(parts) = 1 THEN parts[1]
    ELSE parts[1] \o <<"\n">> \o Join(Tail(parts))

\* What a library call yields: a text, None, or an exception.
Text(t) == [k |-> "text", t |-> t]
NoneValue == [k |-> "none", t |-> <<>>]
Raises == [k |-> "raise", t |-> <<>>]

\* Python truthiness of a str-or-None value
Truthy(v) == v.k = "text" /\ v.t # <<>>

LongText == Rep("a", MinTextChars)
ShortText == Rep("a", 5)

\* A PDF page: what page.extract_text gives, whether page.to_image works,
\* and what pytesseract.image_to_string gives for the raster.
Page(v, i, o) == [vec |-> v, img |-> i, ocr |-> o]
PageKinds ==
    {Page(Text(LongText), "ok", Raises), Page(Text(ShortText), "ok", Raises),
     Page(Raises, "ok", Raises)}
    \cup {Page(v, "raise", Raises) : v \in {NoneValue, Text(<<>>)}}
    \cup {Page(v, "ok", o) :
            v \in {NoneValue, Text(<<>>)},
            o \in {Text(LongText \o <<"\n">>), Text(<<" ", "\n">>), Raises}}

RECURSIVE PageSeqs(_)
PageSeqs(n) ==
    IF n = 0 THEN {<<>>}
    ELSE LET shorter == PageSeqs(n - 1)
         IN shorter \cup {Append(ps, p) : ps \in shorter, p \in PageKinds}

\* The for loop of _extract_pdf_text (lines 16-28) from page i on.
\* page.extract_text is inside the outer try only: when it raises, the loop
\* is left and line 32-34 returns "".  to_image and image_to_string are
\* inside the inner try: when they raise, the page adds nothing.
RECURSIVE PdfLoop(_, _, _, _)
PdfLoop(pages, i, parts, ocrRan) ==
    IF i > Len(pages)
    THEN [aborted |-> FALSE, parts |-> parts, ocrRan |-> ocrRan]
    ELSE LET p == pages[i] IN
         IF p.vec.k = "raise"
         THEN [aborted |-> TRUE, parts |-> parts, ocrRan |-> ocrRan]
         ELSE IF Truthy(p.vec)
         THEN PdfLoop(pages, i + 1, Append(parts, p.vec.t), ocrRan)
         ELSE IF p.img = "raise"
         THEN PdfLoop(pages, i + 1, parts, ocrRan)
         ELSE IF p.ocr.k = "raise"
         THEN PdfLoop(pages, i + 1, parts, ocrRan \cup {i})
         ELSE IF Strip(p.ocr.t) # <<>>
         THEN PdfLoop(pages, i + 1, Append(parts, p.ocr.t), ocrRan \cup {i})
         ELSE PdfLoop(pages, i + 1, parts, ocrRan \cup {i})

\* _extract_pdf_text: [text, ocrRan]; ocrRan lists the pages whose raster
\* was given to pytesseract.  A file pdfplumber cannot open gives "".
ExtractPdfText(body) ==
    IF body.k = "raise"
    THEN [text |-> <<>>, ocrRan |-> {}]
    ELSE LET run == PdfLoop(body.pages, 1, <<>>, {}) IN
         IF run.aborted
         THEN [text |-> <<>>, ocrRan |-> run.ocrRan]
         ELSE [text |-> Strip(Join(run.parts)), ocrRan |-> run.ocrRan]

\* _extract_image_text: pytesseract.image_to_string(img).strip(), "" on error
ExtractImageText(body) == IF body.k = "raise" THEN <<>> ELSE Strip(body.t)

\* _extract_docx_text: "\n".join(p.text for p in doc.paragraphs).strip()
ExtractDocxText(body) == IF body.k = "raise" THEN <<>> ELSE Strip(Join(body.paras))

\* if not text or len(text.strip()) < 10
InsufficientNoStrip(text) == text = <<>> \/ Len(text) < MinTextChars
Insufficient(text) == text = <<>> \/ Len(Strip(text)) < MinTextChars

Returned200(text, ocrRan) ==
    [kind |-> "return", text |-> text, msg |-> "", ocrRan |-> ocrRan]
Raised(cls, msg, ocrRan) ==
    [kind |-> cls, text |-> <<>>, msg |-> msg, ocrRan |-> ocrRan]

PdfMsg ==
    "Could not extract text from PDF. The file may be corrupted or contain only images without OCR."
ImageMsg ==
    "Could not extract text from image. Please ensure the image contains clear, readable text."
DocxMsg ==
    "Could not extract text from DOCX file. The file may be empty or corrupted."
PlainMsg ==
    "Could not read file: File appears to be empty or contains insufficient text."
ReadMsg == "Could not read file: [Errno 13] Permission denied"

\* extract_text_from_file(path) for a file f = [exists, size, ext, body];
\* stat = "raise" when os.path.getsize fails.
ExtractTextFromFile(f) ==
    IF ~f.exists THEN Raised("FileNotFoundError", "File not found", {})
    ELSE IF f.stat = "raise" THEN Raised("OSError", "[Errno 5] Input/output error", {})
    ELSE IF f.size = 0 THEN Raised("ValueError", "File is empty", {})
    ELSE IF f.ext \in {".pdf"}
    THEN LET r == ExtractPdfText(f.body) IN
         IF Insufficient(r.text) THEN Raised("ValueError", PdfMsg, r.ocrRan)
         ELSE Returned200(r.text, r.ocrRan)
    ELSE IF f.ext \in {".jpg", ".jpeg", ".png"}
    THEN LET text == ExtractImageText(f.body) IN
         IF Insufficient(text) THEN Raised("ValueError", ImageMsg, {})
         ELSE Returned200(text, {})
    ELSE IF f.ext \in {".docx"}
    THEN LET text == ExtractDocxText(f.body) IN
         IF Insufficient(text) THEN Raised("ValueError", DocxMsg, {})
         ELSE Returned200(text, {})
    ELSE IF f.body.k = "raise" THEN Raised("ValueError", ReadMsg, {})
    ELSE IF Insufficient(f.body.t) THEN Raised("ValueError", PlainMsg, {})
    ELSE Returned200(f.body.t, {})

\* The files extract_text_from_file is called with.
PdfBody(opens, pages) ==
    [k |-> IF opens THEN "pdf" ELSE "raise", t |-> <<>>, pages |-> pages,
     paras |-> <<>>]
TextBody(v) == [k |-> v.k, t |-> v.t, pages |-> <<>>, paras |-> <<>>]
DocxBody(ps) == [k |-> "docx", t |-> <<>>, pages |-> <<>>, paras |-> ps]

File(e, b) == [exists |-> TRUE, stat |-> "ok", size |-> 1, ext |-> e, body |-> b]

RawTexts ==
    {<<>>, ShortText, <<" ">> \o Rep("a", 9) \o <<" ">>, LongText,
     <<" ">> \o LongText \o <<"\n">>, Rep(" ", 12)}

ExtractInputs ==
    {[File(".pdf", PdfBody(FALSE, <<>>)) EXCEPT !.exists = FALSE],
     [File(".pdf", PdfBody(FALSE, <<>>)) EXCEPT !.stat = "raise"],
     [File(".pdf", PdfBody(FALSE, <<>>)) EXCEPT !.size = 0],
     File(".pdf", PdfBody(FALSE, <<>>))}
    \cup {File(".pdf", PdfBody(TRUE, ps)) : ps \in PageSeqs(MaxPages)}
    \cup {File(e, TextBody(v)) :
            e \in {".jpg", ".jpeg", ".png", ".txt"},
            v \in {Text(t) : t \in RawTexts} \cup {Raises}}
    \cup {File(".docx", TextBody(Raises))}
    \cup {File(".docx", DocxBody(ps)) :
            ps \in {<<>>, <<ShortText>>, <<ShortText, ShortText>>,
                    <<<<>>, LongText, <<>>>>}}

NoArg == "<no call>"
NoRet == "<no return>"

PureQuiet == arg = NoArg /\ ret = NoRet /\ fpc = "idle"

ExtractCall ==
    /\ UNCHANGED nonPure
    /\ fpc = "call"
    /\ ret' = ExtractTextFromFile(arg)
    /\ fpc' = "done"
    /\ UNCHANGED arg

\* ------------------------------------------------------------------------
\* GeminiClient.detect_language
\* ------------------------------------------------------------------------
SliceLen == 500
MinDetectChars == 10

LangLabels ==
    {"English", "Hindi", "Marathi", "Tamil", "Telugu", "Bengali", "Gujarati",
     "Kannada", "Malayalam", "Punjabi"}

\* lang_map.get(lang_code, "English")
LangMapGet(code) ==
    CASE code = "en" -> "English"
      [] code = "hi" -> "Hindi"
      [] code = "mr" -> "Marathi"
      [] code = "ta" -> "Tamil"
      [] code = "te" -> "Telugu"
      [] code = "bn" -> "Bengali"
      [] code = "gu" -> "Gujarati"
      [] code = "kn" -> "Kannada"
      [] code = "ml" -> "Malayalam"
      [] code = "pa" -> "Punjabi"
      [] OTHER       -> "English"

\* What langdetect.detect can do: return a code (mapped or not) or raise.
DetCodes ==
    {"en", "hi", "mr", "ta", "te", "bn", "gu", "kn", "ml", "pa", "fr", "raise"}

\* text[:n]
SliceAll(t, n) == t
Slice(t, n) == IF Len(t) <= n THEN t ELSE SubSeq(t, 1, n)

NotDetected == [label |-> "English", called |-> FALSE, detArg |-> <<>>]

\* detect_language(text) when the detector answers det: the label, and the
\* argument the detector was given.
DetectLanguage(v, det) ==
    IF ~Truthy(v) \/ Len(Strip(v.t)) < MinDetectChars
    THEN NotDetected
    ELSE LET a == Slice(v.t, SliceLen) IN
         [label |-> IF det = "raise" THEN "English" ELSE LangMapGet(det),
          called |-> TRUE, detArg |-> a]

DetectTexts ==
    {NoneValue, Text(<<>>), Text(Rep("a", 9)),
     Text(<<" ">> \o Rep("a", 9) \o <<" ">>), Text(LongText),
     Text(Rep("a", SliceLen - 1)), Text(Rep("a", SliceLen)),
     Text(Rep("a", SliceLen) \o <<"b">>)}

DetectCall ==
    /\ UNCHANGED nonPure
    /\ fpc = "detect"
    /\ ret' = DetectLanguage(arg.text, arg.det)
    /\ fpc' = "detected"
    /\ UNCHANGED arg

\* ------------------------------------------------------------------------
\* GeminiClient.classify_legal
\* ------------------------------------------------------------------------
MaxClassifyLen == 4

UpperLetters ==
    <<"A", "B", "C", "D", "E", "F", "G", "H", "I", "J", "K", "L", "M",
      "N", "O", "P", "Q", "R", "S", "T", "U", "V", "W", "X", "Y", "Z">>
LowerLetters ==
    <<"a", "b", "c", "d", "e", "f", "g", "h", "i", "j", "k", "l", "m",
      "n", "o", "p", "q", "r", "s", "t", "u", "v", "w", "x", "y", "z">>

\* str.lower(), one character at a time
LowerChar(c) ==
    IF \E i \in 1..26 : UpperLetters[i] = c
    THEN LowerLetters[CHOOSE i \in 1..26 : UpperLetters[i] = c]
    ELSE c

LowerText(t) == [i \in 1..Len(t) |-> LowerChar(t[i])]

\* phrase in text
IsSubstring(phrase, t) ==
    \E i \in 0..(Len(t) - Len(phrase)) :
        \A j \in 1..Len(phrase) : t[i + j] = phrase[j]

\* any(p in text for p in phrases)
AnyIn(phrases, t) == \E k \in 1..Len(phrases) : IsSubstring(phrases[k], t)

greetings ==
    <<<<"h", "i">>,
      <<"h", "e", "l", "l", "o">>,
      <<"h", "e", "y">>,
      <<"n", "a", "m", "a", "s", "t", "e">>,
      <<"g", "o", "o", "d", " ", "m", "o", "r", "n", "i", "n", "g">>,
      <<"g", "o", "o", "d", " ", "e", "v", "e", "n", "i", "n", "g">>,
      <<"g", "o", "o", "d", " ", "a", "f", "t", "e", "r", "n", "o", "o", "n">>,
      <<"h", "o", "w", " ", "a", "r", "e", " ", "y", "o", "u">>,
      <<"t", "h", "a", "n", "k", "s">>,
      <<"t", "h", "a", "n", "k", " ", "y", "o", "u">>,
      <<"b", "y", "e">>>>

non_legal_topics ==
    <<<<"r", "e", "s", "u", "m", "e">>,
      <<"c", "v">>,
      <<"c", "u", "r", "r", "i", "c", "u", "l", "u", "m", " ", "v", "i", "t", "a", "e">>,
      <<"j", "o", "b", " ", "a", "p", "p", "l", "i", "c", "a", "t", "i", "o", "n">>,
      <<"c", "e", "o", " ", "o", "f">>,
      <<"f", "o", "u", "n", "d", "e", "r", " ", "o", "f">>,
      <<"w", "h", "o", " ", "i", "s", " ", "t", "h", "e", " ", "c", "e", "o">>,
      <<"r", "e", "c", "i", "p", "e">>,
      <<"c", "o", "o", "k", "i", "n", "g">>,
      <<"f", "o", "o", "d", " ", "p", "r", "e", "p", "a", "r", "a", "t", "i", "o", "n">>,
      <<"m", "o", "v", "i", "e">>,
      <<"f", "i", "l", "m">>,
      <<"e", "n", "t", "e", "r", "t", "a", "i", "n", "m", "e", "n", "t">>,
      <<"s", "p", "o", "r", "t", "s">>,
      <<"c", "r", "i", "c", "k", "e", "t">>,
      <<"f", "o", "o", "t", "b", "a", "l", "l">>,
      <<"m", "a", "t", "c", "h">>,
      <<"w", "e", "a", "t", "h", "e", "r">>,
      <<"t", "e", "m", "p", "e", "r", "a", "t", "u", "r", "e">>,
      <<"c", "l", "i", "m", "a", "t", "e", " ", "t", "o", "d", "a", "y">>>>

\* classify_legal(text)
ClassifyLegalTopicsFirst(t) ==
    LET text_lower == Strip(LowerText(t)) IN
    IF AnyIn(non_legal_topics, text_lower) THEN "NOT_LEGAL"
    ELSE "LEGAL"

ClassifyLegal(t) ==
    LET text_lower == Strip(LowerText(t)) IN
    IF AnyIn(greetings, text_lower) THEN "LEGAL"
    ELSE IF AnyIn(non_legal_topics, text_lower) THEN "NOT_LEGAL"
    ELSE "LEGAL"

\* The characters the checked messages are written in: enough to spell a
\* greeting ("hi") and an off-topic phrase ("cv") in either case.
ClassifyChars == {"h", "i", "c", "v", "H", "V", " "}

\* every sequence over S of length at most n
SeqsOver(S, n) == UNION {[1..k -> S] : k \in 0..n}

ClassifyTexts == SeqsOver(ClassifyChars, MaxClassifyLen)

ClassifyCall ==
    /\ UNCHANGED nonPure
    /\ fpc = "classify"
    /\ ret' = ClassifyLegal(arg)
    /\ fpc' = "classified"
    /\ UNCHANGED arg

\* ------------------------------------------------------------------------
\* The upload handler (backend/main.py) and extract_text_from_file's entry
\* checks (backend/services/ocr.py)
\* ------------------------------------------------------------------------
NumReqs == 2
Reqs == 1..NumReqs

MAX_FILE_BYTES == 15 * 1024 * 1024
ALLOWED_EXTS == {".pdf", ".jpg", ".jpeg", ".png", ".docx"}

\* A filename is [stem, ext]: the text before the last dot and the suffix
\* from that dot on, as the client sent it.
NoFilename == [stem |-> "", ext |-> ""]
Filenames ==
    {NoFilename,
     [stem |-> "a", ext |-> ".pdf"],
     [stem |-> "b", ext |-> ".PNG"],
     [stem |-> "c", ext |-> ".txt"],
     [stem |-> "", ext |-> ".pdf"]}

\* str.lower() on the suffixes that occur
Lower(e) ==
    CASE e = ".PDF"  -> ".pdf"
      [] e = ".PNG"  -> ".png"
      [] e = ".JPG"  -> ".jpg"
      [] e = ".JPEG" -> ".jpeg"
      [] e = ".DOCX" -> ".docx"
      [] e = ".TXT"  -> ".txt"
      [] OTHER       -> e

\* os.path.splitext(name)[1]: a name that is only a leading-dot suffix has
\* no extension.
SplitExt(fn) == IF fn.stem = "" THEN "" ELSE fn.ext

\* ext = os.path.splitext(file.filename)[1].lower()
ExtOf(fn) == Lower(SplitExt(fn))

Sizes == {0, MAX_FILE_BYTES, MAX_FILE_BYTES + 1}

\* if len(content) > MAX_FILE_BYTES
TooLargeInclusive(n) == n >= MAX_FILE_BYTES
TooLarge(n) == n > MAX_FILE_BYTES

NoPath == <<0, "">>
UnknownSize == -1
NoFile == [filename |-> NoFilename, size |-> UnknownSize]
NoResponse == [status |-> 0, kind |-> "none"]

\* The detail of each HTTPException the handler raises itself.
Detail(k) ==
    CASE k = "NoFilename"  -> "No filename provided."
      [] k = "Unsupported" -> "Unsupported file type"
      [] k = "Empty"       -> "File is empty."
      [] k = "TooLarge"    -> "File too large"
      [] k = "Unhandled"   -> "Internal Server Error"
      [] OTHER             -> ""

Reply(st, k) == [status |-> st, kind |-> k, detail |-> Detail(k)]

UpInit ==
    /\ fs = <<>>
    /\ upc = [r \in Reqs |-> "idle"]
    /\ ufile = [r \in Reqs |-> NoFile]
    /\ fileId = [r \in Reqs |-> 0]
    /\ savedPath = [r \in Reqs |-> NoPath]
    /\ opened = [r \in Reqs |-> FALSE]
    /\ extractCalled = [r \in Reqs |-> FALSE]
    /\ removeFailed = [r \in Reqs |-> FALSE]
    /\ pending = [r \in Reqs |-> NoResponse]
    /\ response = [r \in Reqs |-> NoResponse]

\* uuid.uuid4(): an identifier no other request has been given
FreshIdsReused == Reqs
FreshIds == Reqs \ {fileId[q] : q \in Reqs}

FsPut(path, file) ==
    [p \in (DOMAIN fs) \cup {path} |-> IF p = path THEN file ELSE fs[p]]
FsRemove(path) == [p \in (DOMAIN fs) \ {path} |-> fs[p]]

\* lines 157-169: filename check, file_id, extension check, saved_path
UpStart(r) ==
    /\ UNCHANGED nonUp
    /\ upc[r] = "idle"
    /\ \E fn \in Filenames :
         /\ ufile' = [ufile EXCEPT ![r] = [filename |-> fn, size |-> UnknownSize]]
         /\ IF fn = NoFilename
            THEN /\ response' = [response EXCEPT ![r] = Reply(400, "NoFilename")]
                 /\ upc' = [upc EXCEPT ![r] = "done"]
                 /\ UNCHANGED <<fileId, savedPath>>
            ELSE \E id \in FreshIds :
                 /\ fileId' = [fileId EXCEPT ![r] = id]
                 /\ IF ExtOf(fn) \notin ALLOWED_EXTS
                    THEN /\ response' =
                              [response EXCEPT ![r] = Reply(400, "Unsupported")]
                         /\ upc' = [upc EXCEPT ![r] = "done"]
                         /\ UNCHANGED savedPath
                    ELSE /\ savedPath' =
                              [savedPath EXCEPT ![r] = <<id, ExtOf(fn)>>]
                         /\ upc' = [upc EXCEPT ![r] = "read"]
                         /\ UNCHANGED response
    /\ UNCHANGED <<fs, opened, extractCalled, removeFailed, pending>>

\* lines 171-180: content = await file.read() (which may raise), then the
\* size checks; len(content) is known from here on
UpRead(r) ==
    /\ UNCHANGED nonUp
    /\ upc[r] = "read"
    /\ \/ /\ response' = [response EXCEPT ![r] = Reply(500, "Unhandled")]
          /\ upc' = [upc EXCEPT ![r] = "done"]
          /\ UNCHANGED ufile
       \/ \E n \in Sizes :
          /\ ufile' = [ufile EXCEPT ![r].size = n]
          /\ IF n = 0
             THEN /\ response' = [response EXCEPT ![r] = Reply(400, "Empty")]
                  /\ upc' = [upc EXCEPT ![r] = "done"]
             ELSE IF TooLarge(n)
             THEN /\ response' = [response EXCEPT ![r] = Reply(400, "TooLarge")]
                  /\ upc' = [upc EXCEPT ![r] = "done"]
             ELSE /\ upc' = [upc EXCEPT ![r] = "open"]
                  /\ UNCHANGED response
    /\ UNCHANGED <<fs, fileId, savedPath, opened, extractCalled,
                   removeFailed, pending>>

\* line 182: open(saved_path, "wb") creates or truncates the file, or raises
UpOpen(r) ==
    /\ UNCHANGED nonUp
    /\ upc[r] = "open"
    /\ opened' = [opened EXCEPT ![r] = TRUE]
    /\ \/ /\ fs' = FsPut(savedPath[r], [owner |-> r, bytes |-> 0])
          /\ upc' = [upc EXCEPT ![r] = "write"]
          /\ UNCHANGED response
       \/ /\ response' = [response EXCEPT ![r] = Reply(500, "Unhandled")]
          /\ upc' = [upc EXCEPT ![r] = "done"]
          /\ UNCHANGED fs
    /\ UNCHANGED <<ufile, fileId, savedPath, extractCalled, removeFailed,
                   pending>>

\* line 183: f.write(content); an exception here (disk full, I/O error)
\* leaves the with block and the handler: the try/finally has not been
\* entered yet.
UpWrite(r) ==
    /\ UNCHANGED nonUp
    /\ upc[r] = "write"
    /\ \/ /\ fs' = FsPut(savedPath[r], [owner |-> r, bytes |-> ufile[r].size])
          /\ upc' = [upc EXCEPT ![r] = "extract"]
          /\ UNCHANGED response
       \/ /\ response' = [response EXCEPT ![r] = Reply(500, "Unhandled")]
          /\ upc' = [upc EXCEPT ![r] = "done"]
          /\ UNCHANGED fs
    /\ UNCHANGED <<ufile, fileId, savedPath, opened, extractCalled,
                   removeFailed, pending>>

\* What extract_text_from_file and the detector can do for an upload: the
\* stored file with a body that extracts or not, a failing stat.
UploadBodies(ext) ==
    IF ext = ".pdf"
    THEN {PdfBody(TRUE, <<Page(Text(LongText), "ok", Raises)>>),
          PdfBody(FALSE, <<>>)}
    ELSE {TextBody(Text(LongText \o <<"\n">>)), TextBody(Raises)}

UploadStats == {"ok", "raise"}
UploadDetCodes == {"hi", "raise"}

StoredFiles(path) ==
    IF path \notin DOMAIN fs
    THEN {[File(path[2], TextBody(Raises)) EXCEPT !.exists = FALSE]}
    ELSE {[File(path[2], b) EXCEPT !.size = fs[path].bytes, !.stat = st] :
             b \in UploadBodies(path[2]), st \in UploadStats}

\* The try block (lines 185-201): extract_text_from_file, detect_language,
\* the JSON body; ValueError -> 400, any other exception -> 500.
TryBlockAll400(r, out, det) ==
    IF out.kind = "return"
    THEN [status |-> 200, kind |-> "OK", detail |-> "",
          file_id |-> fileId[r], filename |-> ufile[r].filename,
          text |-> out.text,
          detected_language |-> DetectLanguage(Text(out.text), det).label,
          text_length |-> Len(out.text),
          src |-> fs[savedPath[r]].owner]
    ELSE [status |-> 400, kind |-> out.kind, detail |-> out.msg]

TryBlock(r, out, det) ==
    IF out.kind = "return"
    THEN [status |-> 200, kind |-> "OK", detail |-> "",
          file_id |-> fileId[r], filename |-> ufile[r].filename,
          text |-> out.text,
          detected_language |-> DetectLanguage(Text(out.text), det).label,
          text_length |-> Len(out.text),
          src |-> fs[savedPath[r]].owner]
    ELSE IF out.kind = "ValueError"
    THEN [status |-> 400, kind |-> out.kind, detail |-> out.msg]
    ELSE [status |-> 500, kind |-> out.kind,
          detail |-> <<"Error processing file: ", out.msg>>]

ExtractResults(r) ==
    {TryBlock(r, ExtractTextFromFile(f), det) :
        f \in StoredFiles(savedPath[r]), det \in UploadDetCodes}

UpExtract(r) ==
    /\ UNCHANGED nonUp
    /\ upc[r] = "extract"
    /\ extractCalled' = [extractCalled EXCEPT ![r] = TRUE]
    /\ \E res \in ExtractResults(r) :
         pending' = [pending EXCEPT ![r] = res]
    /\ upc' = [upc EXCEPT ![r] = "finally"]
    /\ UNCHANGED <<fs, ufile, fileId, savedPath, opened, removeFailed, response>>

\* lines 202-206: finally: try os.remove(saved_path) except Exception: pass
UpFinally(r) ==
    /\ UNCHANGED nonUp
    /\ upc[r] = "finally"
    /\ \/ /\ savedPath[r] \in DOMAIN fs
          /\ fs' = FsRemove(savedPath[r])
          /\ UNCHANGED removeFailed
       \/ /\ removeFailed' = [removeFailed EXCEPT ![r] = TRUE]
          /\ UNCHANGED fs
    /\ response' = [response EXCEPT ![r] = pending[r]]
    /\ upc' = [upc EXCEPT ![r] = "done"]
    /\ UNCHANGED <<ufile, fileId, savedPath, opened, extractCalled, pending>>

\* ------------------------------------------------------------------------
\* The chat handler (backend/main.py) and GeminiClient.build_chat_prompt
\* ------------------------------------------------------------------------
MaxMsgs == 2

Roles == {"user", "assistant"}

\* Message contents: empty, a greeting, an off-topic phrase.
ChatContents == {<<>>, <<"h", "i">>, <<"c", "v">>}

Languages == {NoneKey, "English", "Hindi"}

ChatMessages == [role : Roles, content : ChatContents]

ChatRequests == SeqsOver(ChatMessages, MaxMsgs)

\* lines 84-88: the content of the last message whose role is "user", or None
RECURSIVE LastUserMsg(_)

RECURSIVE LastNonEmptyUserMsg(_)
LastNonEmptyUserMsg(msgs) ==
    IF msgs = <<>> THEN NoneValue
    ELSE IF msgs[Len(msgs)].role = "user" /\ msgs[Len(msgs)].content # <<>>
    THEN Text(msgs[Len(msgs)].content)
    ELSE LastNonEmptyUserMsg(SubSeq(msgs, 1, Len(msgs) - 1))

LastMsgAnyRole(msgs) ==
    IF msgs = <<>> THEN NoneValue ELSE Text(msgs[Len(msgs)].content)

LastUserMsg(msgs) ==
    IF msgs = <<>> THEN NoneValue
    ELSE IF msgs[Len(msgs)].role = "user" THEN Text(msgs[Len(msgs)].content)
    ELSE LastUserMsg(SubSeq(msgs, 1, Len(msgs) - 1))

CannedReply == <<"I appreciate your question, but I'm specifically designed to help with legal matters related to Indian law.">>

SystemPreamble == <<"You are NyayAI, a friendly and helpful Indian legal assistant.">>

\* line 144: the note is empty unless a language other than English is asked
LanguageNote(lang) ==
    IF ~Falsy(lang) /\ lang # "English"
    THEN <<"CRITICAL: Respond ONLY in ", lang, " language.">>
    ELSE <<>>

\* build_chat_prompt: the lines that "\n".join puts together, each line
\* being <<prefix, text>>.
BuildChatPrompt(system_preamble, language_note, messages) ==
    (IF system_preamble # <<>>
     THEN << <<"System: ", system_preamble>> >> ELSE <<>>)
    \o (IF language_note # <<>>
        THEN << <<"System: ", language_note>> >> ELSE <<>>)
    \o [i \in 1..Len(messages) |->
          <<IF messages[i].role = "user" THEN "User: " ELSE "Assistant: ",
            messages[i].content>>]
    \o << <<"Assistant:", <<>> >> >>

\* _gemini.text(prompt, temperature=0.3), in tenths
ChatTemperature == 3

\* The client is configured (main.py 19-21 refuses to start without a key)
\* and no call of _generate is in progress.
GenIdle ==
    /\ apiKey \in {"key-A", "key-B"}
    /\ model \in Models
    /\ prompt = "p1"
    /\ temperature = 3
    /\ maxRetries = DefaultMaxRetries
    /\ gpc = "idle"
    /\ attempt = 0
    /\ requests = 0
    /\ outcomes = <<>>
    /\ respText = <<>>
    /\ slept = <<>>
    /\ result = NoResult
    /\ raised = FALSE

\* The call self._generate(p, temperature=t): max_retries takes its default.
GenerateCall(p, t) ==
    /\ gpc = "idle"
    /\ prompt' = p
    /\ temperature' = t
    /\ maxRetries' = DefaultMaxRetries
    /\ gpc' = "start"
    /\ UNCHANGED <<apiKey, model, attempt, requests, outcomes, respText,
                   slept, result, raised>>

\* lines 82-145: last user message, the 400, the gate, the canned reply, the
\* prompt and the call of _gemini.text.  Both verdicts are upper-case
\* already, so verification.upper() compares as the verdict itself.
ChatGate ==
    /\ cpc = "recv"
    /\ LET last_user_msg == LastUserMsg(cmsgs) IN
       IF ~Truthy(last_user_msg)
       THEN /\ creply' = [status |-> 400, kind |-> "HTTPException",
                          detail |-> "No user message found"]
            /\ cpc' = "done"
            /\ UNCHANGED <<gateCalls, textCalls, gvars>>
       ELSE /\ gateCalls' = Append(gateCalls, last_user_msg.t)
            /\ IF ClassifyLegal(last_user_msg.t) # "LEGAL"
               THEN /\ creply' = [status |-> 200, kind |-> "OK",
                                  reply |-> CannedReply]
                    /\ cpc' = "done"
                    /\ UNCHANGED <<textCalls, gvars>>
               ELSE LET p == BuildChatPrompt(SystemPreamble,
                                             LanguageNote(clang), cmsgs)
                    IN /\ textCalls' =
                            Append(textCalls,
                                   [prompt |-> p, temperature |-> ChatTemperature])
                       /\ GenerateCall(p, ChatTemperature)
                       /\ cpc' = "generating"
                       /\ UNCHANGED creply
    /\ UNCHANGED <<cmsgs, clang, uvars, pvars, hvars, evars>>

\* lines 150-151: reply = the call's result; an exception leaving
\* _generate leaves the handler too.
ChatFinish ==
    /\ cpc = "generating"
    /\ gpc = "done"
    /\ creply' = IF raised
                 THEN [status |-> 500, kind |-> "Unhandled",
                       detail |-> "Internal Server Error"]
                 ELSE [status |-> 200, kind |-> "OK", reply |-> result]
    /\ cpc' = "done"
    /\ UNCHANGED <<cmsgs, clang, gateCalls, textCalls, gvars, uvars, pvars,
                   hvars, evars>>

\* ------------------------------------------------------------------------
\* GeminiClient.validate_api_key and the /health handler (backend/main.py)
\* ------------------------------------------------------------------------
TestPrompt == "Respond with just the word 'OK' if you can read this."

\* self._generate(test_prompt, temperature=0.1), in tenths
ValidateTemperature == 1

\* str.upper(), one character at a time
UpperChar(c) ==
    IF \E i \in 1..26 : LowerLetters[i] = c
    THEN UpperLetters[CHOOSE i \in 1..26 : LowerLetters[i] = c]
    ELSE c

\* "OK" in result.upper().  A sentinel is one fixed text, and none of the
\* sentinels holds "ok" in any case.
ContainsOK(r) ==
    \E i \in 1..(Len(r) - 1) :
        UpperChar(r[i]) = "O" /\ UpperChar(r[i + 1]) = "K"

\* "OK" in result.upper() or len(result) > 0
Valid(r) == ContainsOK(r) \/ Len(r) > 0

\* line 66: api_valid = _gemini.validate_api_key(), up to the call of
\* _generate
HealthValidate ==
    /\ hpc = "recv"
    /\ GenerateCall(TestPrompt, ValidateTemperature)
    /\ hpc' = "validating"
    /\ UNCHANGED <<apiValid, hresp, uvars, pvars, cvars, evars>>

\* validate_api_key's return (318-320) and the body of /health (67-71)
HealthFinish ==
    /\ hpc = "validating"
    /\ gpc = "done"
    /\ LET v == IF raised THEN FALSE ELSE Valid(result) IN
       /\ apiValid' = v
       /\ hresp' = [status |-> 200, kind |-> "OK",
                    gemini_api |-> IF v THEN "connected" ELSE "error"]
    /\ hpc' = "done"
    /\ UNCHANGED <<gvars, uvars, pvars, cvars, evars>>

\* ------------------------------------------------------------------------
\* The PDF export handler (backend/main.py) and make_pdf_from_text
\* (backend/services/export.py)
\* ------------------------------------------------------------------------
\* req.content
ExportContents == {<<"a">>, <<"a", " ", "a">>}

\* req.filename: Optional[str]
ExportFilenames ==
    {NoneValue, Text(<<"n">>), Text(<<"n", "/", "m">>), Text(<<"n", "_", "m">>)}

DefaultExportName == <<"nyayai_output">>

\* make_pdf_from_text(text).getvalue(): the document drawn from the text,
\* one text line per line of the content.
MakePdfFromText(text) == [format |-> "pdf", lines |-> text]

\* str.replace("/", "_")
ReplaceSlash(name) ==
    [i \in 1..Len(name) |-> IF name[i] = "/" THEN "_" ELSE name[i]]

\* line 249: filename = (req.filename or "nyayai_output").replace("/", "_") + ".pdf"
ExportFilename(fn) ==
    ReplaceSlash(IF Truthy(fn) THEN fn.t ELSE DefaultExportName) \o <<".pdf">>

NoExportReq == [content |-> <<>>, filename |-> NoneValue]
NoBytes == [format |-> "none", lines |-> <<>>]

ExpInit ==
    /\ edir = <<>>
    /\ epc = [r \in Reqs |-> "idle"]
    /\ ereq = [r \in Reqs |-> NoExportReq]
    /\ epath = [r \in Reqs |-> <<>>]
    /\ eserved = [r \in Reqs |-> NoBytes]

\* lines 247-253: the handler body, which has no await and so runs in one
\* piece: render, name the file, write it, return FileResponse(path).
ExpHandle(r) ==
    /\ epc[r] = "idle"
    /\ \E c \in ExportContents, fn \in ExportFilenames :
         LET path == ExportFilename(fn) IN
         /\ ereq' = [ereq EXCEPT ![r] = [content |-> c, filename |-> fn]]
         /\ epath' = [epath EXCEPT ![r] = path]
         /\ edir' = [p \in (DOMAIN edir) \cup {path} |->
                        IF p = path THEN MakePdfFromText(c) ELSE edir[p]]
    /\ epc' = [epc EXCEPT ![r] = "respond"]
    /\ UNCHANGED <<eserved, gvars, uvars, pvars, cvars, hvars>>

\* The FileResponse, sent by the server after the handler has returned: it
\* reads the file that is at path then.
ExpRespond(r) ==
    /\ epc[r] = "respond"
    /\ eserved' = [eserved EXCEPT ![r] = edir[epath[r]]]
    /\ epc' = [epc EXCEPT ![r] = "done"]
    /\ UNCHANGED <<edir, ereq, epath, gvars, uvars, pvars, cvars, hvars>>

\* ------------------------------------------------------------------------
\* Specifications
\* ------------------------------------------------------------------------
\* One call of _generate; no upload is in progress.
ChatQuiet ==
    /\ cmsgs = <<>>
    /\ clang = NoneKey
    /\ cpc = "idle"
    /\ gateCalls = <<>>
    /\ textCalls = <<>>
    /\ creply = NoResponse

HealthQuiet == hpc = "idle" /\ apiValid = FALSE /\ hresp = NoResponse

Init == GenInit /\ UpInit /\ ExpInit /\ PureQuiet /\ ChatQuiet /\ HealthQuiet

Next ==
    \/ GenNoKey
    \/ GenEnterLoop
    \/ GenAttemptFail
    \/ GenAttemptContent
    \/ GenLoopExit

Spec == Init /\ [][Next]_vars

\* One call of _generate that keeps running: requests.post returns or raises
\* within its timeout and time.sleep returns, so a step that is possible is
\* eventually taken.
LiveSpec == Init /\ [][Next]_vars /\ WF_vars(Next)

\* Upload requests against a configured client that is not generating.
GenQuiet ==
    /\ apiKey = "key-A"
    /\ model \in Models
    /\ prompt = "p1"
    /\ temperature = 3
    /\ maxRetries = DefaultMaxRetries
    /\ gpc = "start"
    /\ attempt = 0
    /\ requests = 0
    /\ outcomes = <<>>
    /\ respText = <<>>
    /\ slept = <<>>
    /\ result = NoResult
    /\ raised = FALSE

UploadInit == GenQuiet /\ UpInit /\ ExpInit /\ PureQuiet /\ ChatQuiet /\ HealthQuiet

UploadNext ==
    \E r \in Reqs :
        \/ UpStart(r)
        \/ UpRead(r)
        \/ UpOpen(r)
        \/ UpWrite(r)
        \/ UpExtract(r)
        \/ UpFinally(r)

UploadSpec == UploadInit /\ [][UploadNext]_vars

\* One call of extract_text_from_file on a file of ExtractInputs.
ExtractInit ==
    /\ GenQuiet /\ UpInit /\ ExpInit /\ ChatQuiet /\ HealthQuiet
    /\ arg \in ExtractInputs
    /\ ret = NoRet
    /\ fpc = "call"

ExtractNext == ExtractCall

ExtractSpec == ExtractInit /\ [][ExtractNext]_vars

\* One call of detect_language on a text of DetectTexts, the detector
\* answering one of DetCodes.
DetectInit ==
    /\ GenQuiet /\ UpInit /\ ExpInit /\ ChatQuiet /\ HealthQuiet
    /\ arg \in [text : DetectTexts, det : DetCodes]
    /\ ret = NoRet
    /\ fpc = "detect"

DetectNext == DetectCall

DetectSpec == DetectInit /\ [][DetectNext]_vars

\* One call of classify_legal on a text of ClassifyTexts.
ClassifyInit ==
    /\ GenQuiet /\ UpInit /\ ExpInit /\ ChatQuiet /\ HealthQuiet
    /\ arg \in ClassifyTexts
    /\ ret = NoRet
    /\ fpc = "classify"

ClassifyNext == ClassifyCall

ClassifySpec == ClassifyInit /\ [][ClassifyNext]_vars

\* One /api/chat request of ChatRequests.  The configured client never takes
\* the no-key return, and with the default max_retries the loop never runs
\* out without returning, so the calls of _generate made here go through
\* GenEnterLoop, GenAttemptFail and GenAttemptContent only.
ChatInit ==
    /\ GenIdle /\ UpInit /\ ExpInit /\ PureQuiet /\ HealthQuiet
    /\ cmsgs \in ChatRequests
    /\ clang \in Languages
    /\ cpc = "recv"
    /\ gateCalls = <<>>
    /\ textCalls = <<>>
    /\ creply = NoResponse

ChatNext ==
    \/ ChatGate
    \/ GenEnterLoop
    \/ GenAttemptFail
    \/ GenAttemptContent
    \/ ChatFinish

ChatSpec == ChatInit /\ [][ChatNext]_vars

\* One /health request against the configured client.
HealthInit ==
    /\ GenIdle /\ UpInit /\ ExpInit /\ PureQuiet /\ ChatQuiet
    /\ hpc = "recv"
    /\ apiValid = FALSE
    /\ hresp = NoResponse

HealthNext ==
    \/ HealthValidate
    \/ GenEnterLoop
    \/ GenAttemptFail
    \/ GenAttemptContent
    \/ HealthFinish

HealthSpec == HealthInit /\ [][HealthNext]_vars

\* Concurrent /api/export/pdf requests.
ExportInit == GenQuiet /\ UpInit /\ ExpInit /\ PureQuiet /\ ChatQuiet /\ HealthQuiet

ExportNext == \E r \in Reqs : ExpHandle(r) \/ ExpRespond(r)

ExportSpec == ExportInit /\ [][ExportNext]_vars

\* ------------------------------------------------------------------------
\* Properties of _generate (checked under Spec)
\* ------------------------------------------------------------------------
Done == gpc = "done"
LastOutcome == outcomes[Len(outcomes)]
AllOutcomes(kinds) == \A i \in 1..Len(outcomes) : outcomes[i].kind \in kinds
FailureKinds == Outcomes \ {"Content"}

\* A returned value is a string of one of the documented forms.
IsErrorString(s) ==
    /\ Len(s) >= 2
    /\ s[1] = "[Error: "
    /\ s[Len(s)] = ". Please try again.]"
IsGeneratedText(s) == \A i \in 1..Len(s) : s[i] \in Chars
IsReturnedString(s) ==
    s \in FixedSentinels \/ IsErrorString(s) \/ IsGeneratedText(s)

\* r is t without its leading and trailing blanks
IsTrimOf(r, t) ==
    /\ r = <<>> \/ (r[1] # " " /\ r[Len(r)] # " ")
    /\ \E i \in 0..Len(t) :
         /\ i + Len(r) <= Len(t)
         /\ \A j \in 1..Len(r) : t[i + j] = r[j]
         /\ \A j \in 1..Len(t) : (j <= i \/ j > i + Len(r)) => t[j] = " "

\* C1: for every maxRetries >= 0 and every sequence of attempt outcomes,
\* _generate returns a string (generated text or a sentinel) and no
\* exception ever reaches its caller.
C1_NeverRaises ==
    /\ ~raised
    /\ Done => IsReturnedString(result)

C1_Witness ==
    /\ Done
    /\ maxRetries = 3
    /\ requests = 3
    /\ outcomes[1] = [kind |-> "BadJson", exc |-> "ValueError"]
    /\ outcomes[2].kind = "Timeout"
    /\ outcomes[3].kind = "BadShape"
    /\ IsErrorString(result)

\* C2: when every attempt gets HTTP 429 (and at least one attempt is made),
\* the call issues exactly maxRetries requests and returns the rate-limit
\* sentinel without raising.
C2_AllRateLimited ==
    (Done /\ requests >= 1 /\ AllOutcomes({"R429"})) =>
        /\ requests = maxRetries
        /\ result = RateLimitSentinel
        /\ ~raised

C2_Witness ==
    /\ Done
    /\ maxRetries = DefaultMaxRetries
    /\ requests = 3
    /\ AllOutcomes({"R429"})
    /\ result = <<"[Rate limit exceeded. Please wait a moment and try again.]">>

\* C3: if attempt k is the first with content and attempts 1..k-1 failed
\* in a retryable way, the result is exactly the trimmed text of that
\* response, holds no sentinel text, and no request follows attempt k.
C3_FirstContentWins ==
    /\ \A i \in 1..Len(outcomes) :
         outcomes[i].kind = "Content" => (i = Len(outcomes) /\ Done)
    /\ (Done /\ outcomes # <<>> /\ LastOutcome.kind = "Content") =>
         /\ IsTrimOf(result, respText)
         /\ \A tok \in SentinelTokens : ~Contains(result, tok)
         /\ requests = Len(outcomes)
         /\ requests <= maxRetries
         /\ Len(slept) = requests - 1

C3_Witness ==
    /\ Done
    /\ requests = 2
    /\ outcomes[1].kind = "NoCandidates"
    /\ outcomes[2].kind = "Content"
    /\ respText = <<" ", "a">>
    /\ result = <<"a">>

\* C4: the delay slept after the 0-based attempt a (not the last one) is
\* 2 * 2^a after HTTP 429 or a network/request exception and 2^a after a
\* timeout, an empty candidate list, an empty parts list or any other
\* exception; a sleep happens after every failed attempt but the last.
LongBackoffClass(e) ==
    \/ e.kind = "R429"
    \/ e.exc \in {"HTTPError", "ConnectionError", "RequestsJSONDecodeError"}

C4_BackoffDelays ==
    /\ \A i \in 1..Len(slept) :
         /\ i <= Len(outcomes)
         /\ i - 1 < maxRetries - 1
         /\ slept[i] = IF LongBackoffClass(outcomes[i])
                       THEN 2 * (2 ^ (i - 1))
                       ELSE 2 ^ (i - 1)
    /\ \A i \in 1..Len(outcomes) :
         (outcomes[i].kind # "Content" /\ i - 1 < maxRetries - 1) =>
             i <= Len(slept)

C4_Witness ==
    /\ Len(outcomes) >= 2
    /\ outcomes[1].kind = "Timeout"
    /\ outcomes[2].kind = "R429"
    /\ slept = <<1, 4>>

\* C5: with no credential (None or empty api_key) _generate returns the
\* configuration-error sentinel at once: no request is issued and no
\* backoff sleep occurs, whatever the prompt, temperature and maxRetries.
C5_NoCredential ==
    apiKey \in {NoneKey, ""} =>
        /\ requests = 0
        /\ slept = <<>>
        /\ gpc # "loop"
        /\ Done => (result = ConfigSentinel /\ ~raised)

C5_Witness ==
    /\ apiKey = ""
    /\ maxRetries = 3
    /\ Done
    /\ result = ConfigSentinel

\* C6: an HTTP error status other than 429 is handled exactly like a
\* generic network exception: backoff 2 * 2^attempt and retry when
\* attempts remain, the network-error sentinel when it was the last one.
C6_HttpErrorAsNetwork ==
    \A i \in 1..Len(outcomes) :
        outcomes[i].kind \in {"HttpError", "ConnError"} =>
            /\ (i - 1 < maxRetries - 1) =>
                   (i <= Len(slept) /\ slept[i] = 2 * (2 ^ (i - 1)))
            /\ (i - 1 >= maxRetries - 1) =>
                   /\ Done
                   /\ i = Len(outcomes)
                   /\ Len(slept) = i - 1
                   /\ result =
                        <<"[Network error. Please wait a moment and try again.]">>

C6_Witness ==
    /\ Done
    /\ maxRetries = 2
    /\ Len(outcomes) = 2
    /\ outcomes[1].kind = "HttpError"
    /\ outcomes[2].kind = "HttpError"
    /\ slept = <<2>>
    /\ result = NetworkSentinel

\* C7 as stated: with maxRetries >= 1, a call that has made maxRetries
\* attempts, none of which produced content, ends with the final
\* "failed after multiple attempts" sentinel.
C7_Original ==
    (Done /\ ~raised /\ maxRetries >= 1 /\ requests = maxRetries
          /\ LastOutcome.kind # "Content") =>
        result = FailedSentinel

\* C7 amended: the final generic sentinel is returned exactly when a
\* credential is configured and maxRetries = 0, so that the loop body never
\* runs; with maxRetries >= 1 the last attempt always returns from inside
\* the loop and the final sentinel is never produced.
C7_FinalSentinelOnlyWithoutAttempts ==
    Done =>
        /\ (result = FailedSentinel) <=>
               (apiKey \notin {NoneKey, ""} /\ maxRetries = 0)
        /\ result = FailedSentinel => requests = 0

C7_Witness ==
    /\ Done
    /\ maxRetries = 0
    /\ apiKey = "key-A"
    /\ requests = 0
    /\ result = FailedSentinel

\* C8: the value returned when the network-exception path is exhausted is
\* one fixed string for every credential and every exception message, so
\* two runs that differ only in api_key return the same value; it holds
\* neither the key nor any piece of the request URL.
NetworkPathExhausted ==
    /\ Done
    /\ outcomes # <<>>
    /\ LastOutcome.exc \in {"HTTPError", "ConnectionError", "RequestsJSONDecodeError"}

C8_NoCredentialLeak ==
    NetworkPathExhausted =>
        /\ result = <<"[Network error. Please wait a moment and try again.]">>
        /\ ~Contains(result, apiKey)
        /\ \A i \in 1..Len(Url(model, apiKey)) :
               ~Contains(result, Url(model, apiKey)[i])

C8_Witness ==
    /\ NetworkPathExhausted
    /\ apiKey = "key-B"
    /\ LastOutcome.exc = "ConnectionError"
    /\ Contains(ExcMessage(LastOutcome.exc, model, apiKey), "key-B")
    /\ result = NetworkSentinel

\* ------------------------------------------------------------------------
\* Properties of the upload handler (checked under UploadSpec)
\* ------------------------------------------------------------------------
Returned(r) == upc[r] = "done"
TempFileLeft(r) == savedPath[r] \in DOMAIN fs

\* C9: on every exit path of the upload handler, a failure while the
\* temporary file is being written included, no temporary file of the
\* request is left in the upload directory once the handler has returned,
\* provided the removal itself did not fail.
C9_TempFileAlwaysRemoved ==
    \A r \in Reqs : (Returned(r) /\ ~removeFailed[r]) => ~TempFileLeft(r)

\* C10: an upload with an extension outside ALLOWED_EXTS, with 0 bytes or
\* with more than MAX_FILE_BYTES bytes is rejected before any temporary
\* file is written and before extraction is attempted; a file of exactly
\* MAX_FILE_BYTES bytes passes the size check.
BadExtension(r) ==
    /\ upc[r] # "idle"
    /\ ExtOf(ufile[r].filename) \notin {".pdf", ".jpg", ".jpeg", ".png", ".docx"}
BadSize(r) == ufile[r].size = 0 \/ ufile[r].size > 15728640

C10_RejectedBeforeWrite ==
    \A r \in Reqs :
        /\ (BadExtension(r) \/ BadSize(r)) =>
              /\ ~opened[r]
              /\ ~extractCalled[r]
              /\ ~TempFileLeft(r)
              /\ upc[r] \in {"read", "done"}
              /\ Returned(r) => response[r].status # 200
        /\ (Returned(r) /\ BadExtension(r)) =>
              response[r].kind \in {"NoFilename", "Unsupported"}
        /\ (BadSize(r) /\ ~BadExtension(r)) =>
              (Returned(r) /\ response[r].kind \in {"Empty", "TooLarge"})
        /\ ufile[r].size = 15728640 =>
              (upc[r] # "done" \/ opened[r])

C10_Witness ==
    \E r \in Reqs :
        /\ opened[r]
        /\ ufile[r].size = 15728640
        /\ \E q \in Reqs :
             /\ Returned(q)
             /\ ufile[q].size = 15728641
             /\ response[q] = Reply(400, "TooLarge")

\* ------------------------------------------------------------------------
\* Properties of the extractor (checked under ExtractSpec)
\* ------------------------------------------------------------------------
Called == fpc = "done"
Readable(f) == f.exists /\ f.stat = "ok" /\ f.size > 0

\* The text each branch's extractor hands to the quality gate; NoRet when
\* the plain-text branch could not read the file.
BranchText(f) ==
    CASE f.ext = ".pdf"  -> ExtractPdfText(f.body).text
      [] f.ext \in {".jpg", ".jpeg", ".png"} -> ExtractImageText(f.body)
      [] f.ext = ".docx" -> ExtractDocxText(f.body)
      [] OTHER           -> f.body.t

NonBlankLen(t) ==
    Cardinality({i \in 1..Len(t) :
        /\ \E j \in 1..i : t[j] \notin {" ", "\n"}
        /\ \E j \in i..Len(t) : t[j] \notin {" ", "\n"}})

\* C12: in every dispatch branch (pdf, image, docx, plain text) a text whose
\* stripped length is below 10 makes the call fail with a ValueError, any
\* other text is returned as it is; so every returned text has stripped
\* length >= 10.
C12_QualityGate ==
    Called =>
        /\ (Readable(arg) /\ arg.body.k # "raise" /\ NonBlankLen(BranchText(arg)) < 10)
               => ret.kind = "ValueError"
        /\ (Readable(arg) /\ arg.body.k # "raise" /\ NonBlankLen(BranchText(arg)) >= 10)
               => (ret.kind = "return" /\ ret.text = BranchText(arg))
        /\ ret.kind = "return" => NonBlankLen(ret.text) >= 10

C12_Witness ==
    /\ Called
    /\ arg.ext = ".txt"
    /\ arg.body.k = "text"
    /\ Len(arg.body.t) = 11
    /\ NonBlankLen(arg.body.t) = 9
    /\ ret.kind = "ValueError"

\* What page i of a PDF contributes when nothing else interferes: its
\* vector text, else the non-blank OCR text of its raster, else nothing.
PageYield(p) ==
    IF p.vec.k = "text" /\ p.vec.t # <<>> THEN p.vec.t
    ELSE IF p.vec.k # "raise" /\ p.img = "ok" /\ p.ocr.k = "text"
            /\ NonBlankLen(p.ocr.t) > 0 THEN p.ocr.t
    ELSE <<>>

IsOpenPdf(f) == Readable(f) /\ f.ext = ".pdf" /\ f.body.k = "pdf"

\* C13: an exception at any stage of one page (vector extraction,
\* rasterization, OCR) only removes that page's contribution; a PDF with
\* at least one page yielding 10 or more characters is extracted
\* successfully, and holds that page's text, whatever the other pages do.
C13_PageFailureIsLocal ==
    (Called /\ IsOpenPdf(arg)) =>
        \A i \in 1..Len(arg.body.pages) :
            NonBlankLen(PageYield(arg.body.pages[i])) >= 10 =>
                /\ ret.kind = "return"
                /\ Len(ret.text) >= NonBlankLen(PageYield(arg.body.pages[i]))

\* C14: OCR is run for exactly the pages without vector text and never for
\* a page with vector text; the result is the per-page texts in page order
\* joined by newlines (compared up to the surrounding whitespace that
\* _extract_pdf_text strips); a PDF whose pages yield nothing fails.
RECURSIVE PageYields(_)
PageYields(pages) ==
    IF pages = <<>> THEN <<>>
    ELSE LET y == PageYield(Head(pages)) IN
         IF y = <<>> THEN PageYields(Tail(pages))
         ELSE <<y>> \o PageYields(Tail(pages))

C14_OcrFallbackAndJoin ==
    (Called /\ IsOpenPdf(arg)) =>
        LET pages == arg.body.pages IN
        /\ \A i \in 1..Len(pages) :
              /\ (pages[i].vec.k = "text" /\ pages[i].vec.t # <<>>)
                     => i \notin ret.ocrRan
              /\ (pages[i].vec.k # "raise" /\ pages[i].vec.t = <<>>
                     /\ pages[i].img = "ok") => i \in ret.ocrRan
        /\ PageYields(pages) = <<>> => ret.kind = "ValueError"
        /\ ret.kind = "return" => ret.text = Strip(Join(PageYields(pages)))
        /\ NonBlankLen(Join(PageYields(pages))) >= 10 => ret.kind = "return"

\* ------------------------------------------------------------------------
\* More properties of the upload handler (checked under UploadSpec)
\* ------------------------------------------------------------------------
ValidationKinds == {"Unsupported", "Empty", "TooLarge"}

\* C11: unknown extension, empty file and oversized file each give a 400
\* with a message of its own; an extraction failure of a known kind
\* (ValueError) gives 400 and any other exception in the try block 500;
\* only a successful extraction gives 200, with file_id, filename, text,
\* detected_language and text_length = length of text.
C11_StatusMapping ==
    \A r \in Reqs : Returned(r) =>
        LET resp == response[r] IN
        /\ BadExtension(r) =>
               (resp.status = 400 /\ resp.kind \in {"NoFilename", "Unsupported"})
        /\ (~BadExtension(r) /\ ufile[r].size = 0) =>
               (resp.status = 400 /\ resp.kind = "Empty")
        /\ (~BadExtension(r) /\ ufile[r].size > 15728640) =>
               (resp.status = 400 /\ resp.kind = "TooLarge")
        /\ \A k1, k2 \in ValidationKinds :
               k1 # k2 => Reply(400, k1).detail # Reply(400, k2).detail
        /\ resp.kind \in ValidationKinds => resp.detail = Reply(400, resp.kind).detail
        /\ resp.kind = "ValueError" =>
               (resp.status = 400 /\ extractCalled[r]
                /\ resp.detail \in {"File is empty", PdfMsg, ImageMsg, DocxMsg})
        /\ resp.kind \in {"OSError", "FileNotFoundError"} =>
               (resp.status = 500 /\ extractCalled[r])
        /\ resp.status \in {400, 500, 200}
        /\ resp.status = 200 =>
               /\ extractCalled[r]
               /\ resp.kind = "OK"
               /\ resp.file_id = fileId[r]
               /\ resp.filename = ufile[r].filename
               /\ NonBlankLen(resp.text) >= 10
               /\ resp.text_length = Len(resp.text)
               /\ resp.detected_language \in LangLabels
        /\ (extractCalled[r] /\ resp.kind \notin {"ValueError", "OK"}) =>
               resp.status = 500

C11_Witness ==
    \E r, q \in Reqs :
        /\ Returned(r) /\ Returned(q)
        /\ response[r].status = 200
        /\ response[r].text_length = 10
        /\ response[r].detected_language = "Hindi"
        /\ response[q].status = 500
        /\ response[q].kind = "OSError"

\* C17: under every interleaving of upload requests each request writes,
\* extracts from and removes only its own temporary file: no two requests
\* share a path, a stored file holds the content of the request whose path
\* it is, a request between its write and its cleanup always finds its own
\* complete file, and the text of a 200 response comes from its own file.
HasPath(r) == savedPath[r] # NoPath

C17_NoTempFileCollision ==
    /\ \A r, q \in Reqs :
          (r # q /\ HasPath(r) /\ HasPath(q)) => savedPath[r] # savedPath[q]
    /\ \A p \in DOMAIN fs : savedPath[fs[p].owner] = p
    /\ \A r \in Reqs :
          /\ upc[r] \in {"extract", "finally"} /\ pending[r].kind # "none"
             => pending[r].kind # "FileNotFoundError"
          /\ upc[r] = "extract" =>
                /\ savedPath[r] \in DOMAIN fs
                /\ fs[savedPath[r]] = [owner |-> r, bytes |-> ufile[r].size]
          /\ (Returned(r) /\ response[r].status = 200) => response[r].src = r

C17_Witness ==
    \E r, q \in Reqs :
        /\ r # q
        /\ upc[r] = "extract"
        /\ Returned(q)
        /\ response[q].status = 200
        /\ ExtOf(ufile[r].filename) = ExtOf(ufile[q].filename)
        /\ removeFailed[q] = FALSE

\* C18: detect_language always returns one of the ten labels; it returns
\* English, without calling the detector, when the text is None or has fewer
\* than 10 characters after trimming; it returns English when the detector
\* raises or answers a code outside the table; and the detector is given
\* exactly the first 500 characters of the text, never more.
Detected == fpc = "detected"

TableCodes == {"en", "hi", "mr", "ta", "te", "bn", "gu", "kn", "ml", "pa"}

TooShort(v) == v = NoneValue \/ NonBlankLen(v.t) < 10

C18_DetectLanguage ==
    Detected =>
        /\ ret.label \in LangLabels
        /\ TooShort(arg.text) => (ret.label = "English" /\ ~ret.called)
        /\ ~TooShort(arg.text) => ret.called
        /\ arg.det \notin TableCodes => ret.label = "English"
        /\ ret.called =>
              /\ Len(ret.detArg) <= 500
              /\ Len(ret.detArg) <= Len(arg.text.t)
              /\ \A i \in 1..Len(ret.detArg) : ret.detArg[i] = arg.text.t[i]
              /\ Len(arg.text.t) >= 500 => Len(ret.detArg) = 500
              /\ Len(arg.text.t) < 500 => Len(ret.detArg) = Len(arg.text.t)

C18_Witness ==
    /\ Detected
    /\ ret.called
    /\ Len(arg.text.t) = 501
    /\ Len(ret.detArg) = 500
    /\ arg.det = "fr"
    /\ ret.label = "English"

\* C15: classify_legal answers LEGAL or NOT_LEGAL, by three ordered rules
\* that ignore letter case: a text containing a greeting phrase is LEGAL even
\* when it also contains an off-topic phrase; otherwise a text containing an
\* off-topic phrase is NOT_LEGAL; otherwise the text is LEGAL.
Classified == fpc = "classified"

SameLetter(a, b) ==
    \/ a = b
    \/ \E i \in 1..26 :
          {a, b} = {UpperLetters[i], LowerLetters[i]}

Mentions(t, phrase) ==
    \E i \in 1..Len(t) :
        /\ i + Len(phrase) - 1 <= Len(t)
        /\ \A j \in 1..Len(phrase) : SameLetter(t[i + j - 1], phrase[j])

Greets(t) == \E k \in DOMAIN greetings : Mentions(t, greetings[k])
OffTopic(t) == \E k \in DOMAIN non_legal_topics : Mentions(t, non_legal_topics[k])

C15_ClassifyLegal ==
    Classified =>
        /\ ret \in {"LEGAL", "NOT_LEGAL"}
        /\ Greets(arg) => ret = "LEGAL"
        /\ (~Greets(arg) /\ OffTopic(arg)) => ret = "NOT_LEGAL"
        /\ (~Greets(arg) /\ ~OffTopic(arg)) => ret = "LEGAL"

C15_Witness ==
    /\ Classified
    /\ arg = <<"H", "i", "c", "V">>
    /\ ret = "LEGAL"

\* C16: the chat handler runs the gate once, on the content of the last
\* message whose role is "user", whatever follows it; on a NOT_LEGAL verdict
\* the reply is the canned redirect and the generator is never called; on a
\* LEGAL verdict _gemini.text is called exactly once, at temperature 0.3,
\* with a prompt that carries every message of the history in order, and
\* the reply is what that call returned.
IsLastUser(i) ==
    /\ i \in 1..Len(cmsgs)
    /\ cmsgs[i].role = "user"
    /\ \A j \in (i + 1)..Len(cmsgs) : cmsgs[j].role # "user"

CarriesHistory(p) ==
    /\ Len(p) >= Len(cmsgs) + 1
    /\ \A i \in 1..Len(cmsgs) :
          LET line == p[Len(p) - 1 - Len(cmsgs) + i]
          IN /\ line[2] = cmsgs[i].content
             /\ line[1] = "User: " <=> cmsgs[i].role = "user"

Answered == cpc = "done" /\ creply.status = 200

C16_ChatGate ==
    /\ Len(gateCalls) <= 1
    /\ Len(textCalls) <= 1
    /\ textCalls = <<>> => (requests = 0 /\ gpc = "idle")
    /\ cpc \in {"generating", "done"} /\ creply.status # 400 =>
          /\ Len(gateCalls) = 1
          /\ \E i \in 1..Len(cmsgs) :
                IsLastUser(i) /\ gateCalls[1] = cmsgs[i].content
          /\ IF ~Greets(gateCalls[1]) /\ OffTopic(gateCalls[1])
             THEN /\ cpc = "done"
                  /\ creply.reply = CannedReply
                  /\ textCalls = <<>>
             ELSE /\ Len(textCalls) = 1
                  /\ textCalls[1].temperature = 3
                  /\ CarriesHistory(textCalls[1].prompt)
                  /\ prompt = textCalls[1].prompt
                  /\ temperature = 3
                  /\ Answered => (gpc = "done" /\ creply.reply = result)

C16_Witness ==
    /\ Answered
    /\ Len(cmsgs) = 2
    /\ cmsgs[1] = [role |-> "user", content |-> <<"h", "i">>]
    /\ cmsgs[2] = [role |-> "assistant", content |-> <<"c", "v">>]
    /\ Len(textCalls) = 1
    /\ requests = 2
    /\ creply.reply = <<"a">>

\* C19: validate_api_key returns True exactly when its call of the generator
\* ended with generated content, and /health says "connected" in exactly
\* that case: "error" whenever the call ended rate-limited, timed out, in a
\* network error or without a response.
GotContent == outcomes # <<>> /\ outcomes[Len(outcomes)].kind = "Content"

C19_ValidIffContent ==
    hpc = "done" =>
        /\ apiValid <=> GotContent
        /\ hresp.gemini_api = "connected" <=> GotContent

\* The sentinel of a rate-limited validation call is reported as a working
\* key.
C19_SentinelCountsAsValid ==
    /\ hpc = "done"
    /\ result = RateLimitSentinel
    /\ requests = 3
    /\ apiValid
    /\ hresp.gemini_api = "connected"

\* C20: with maxRetries >= 1, a call that runs out of attempts returns the
\* sentinel of its last attempt's failure class alone (429: rate limit;
\* timeout: timeout; HTTP error or another request exception: network
\* error; no candidates: no response; no parts: no text content; any other
\* exception: the generic error with the exception's description), whatever
\* the earlier attempts failed with.
RanOut ==
    /\ Done
    /\ ~raised
    /\ maxRetries >= 1
    /\ outcomes # <<>>
    /\ LastOutcome.kind # "Content"

SentinelOf(o) ==
    IF o.kind = "R429" THEN RateLimitSentinel
    ELSE IF o.kind = "NoCandidates" THEN NoResponseSentinel
    ELSE IF o.kind = "NoParts" THEN NoTextSentinel
    ELSE IF o.exc = "Timeout" THEN TimeoutSentinel
    ELSE IF o.exc \in {"HTTPError", "ConnectionError", "RequestsJSONDecodeError"}
    THEN NetworkSentinel
    ELSE <<"[Error: ">> \o ExcMessage(o.exc, model, apiKey)
             \o <<". Please try again.]">>

C20_LastAttemptDecides ==
    RanOut =>
        /\ requests = maxRetries
        /\ Len(outcomes) = maxRetries
        /\ result = SentinelOf(LastOutcome)

C20_Witness ==
    /\ RanOut
    /\ Len(outcomes) = 3
    /\ outcomes[1].kind = "Timeout"
    /\ outcomes[2].kind = "R429"
    /\ outcomes[3].kind = "NoParts"
    /\ result = NoTextSentinel

\* C21: every call of _generate terminates; it issues at most maxRetries
\* requests, each after the previous one has its outcome; while the loop
\* runs every sleep has been followed by the next attempt's turn, and on
\* return the sleeps number one less than the requests when a request was
\* made (none otherwise): no sleep follows the final attempt.
C21_Bounded ==
    /\ requests <= maxRetries
    /\ requests = Len(outcomes)
    /\ gpc = "loop" => (Len(slept) = requests /\ attempt = requests)
    /\ Done => Len(slept) = IF requests >= 1 THEN requests - 1 ELSE 0

C21_Terminates == []C21_Bounded /\ <>Done

C21_Witness ==
    /\ Done
    /\ maxRetries = 3
    /\ requests = 3
    /\ Len(slept) = 2
    /\ Len(outcomes) = 3
    /\ outcomes[3].kind = "ConnError"

\* C22: the chat handler answers 400 "No user message found" exactly when
\* no message has role "user" or the last message with role "user" has
\* empty content, earlier user messages not being looked at; a request
\* answered so reaches neither the gate nor the generator.
NoUsableUserMsg ==
    \/ \A i \in 1..Len(cmsgs) : cmsgs[i].role # "user"
    \/ \E i \in 1..Len(cmsgs) : IsLastUser(i) /\ Len(cmsgs[i].content) = 0

C22_NoUserMessage ==
    /\ cpc = "done" =>
          /\ creply.status = 400 <=> NoUsableUserMsg
          /\ creply.status = 400 =>
                /\ creply.detail = "No user message found"
                /\ gateCalls = <<>>
                /\ textCalls = <<>>
                /\ requests = 0
                /\ gpc = "idle"
    /\ NoUsableUserMsg => (gateCalls = <<>> /\ textCalls = <<>> /\ requests = 0)

C22_Witness ==
    /\ cpc = "done"
    /\ Len(cmsgs) = 2
    /\ cmsgs[1] = [role |-> "user", content |-> <<"h", "i">>]
    /\ cmsgs[2] = [role |-> "user", content |-> <<>>]
    /\ creply.status = 400
    /\ gateCalls = <<>>

\* C23: under every interleaving of /api/export/pdf requests, same filename
\* or none included, the file each response serves holds the bytes rendered
\* from that request's own content.
C23_ServedOwnContent ==
    \A r \in Reqs :
        epc[r] = "done" => eserved[r] = [format |-> "pdf", lines |-> ereq[r].content]

\* Two requests that name no file and differ in content: the first one is
\* served the second one's document.
C23_ServedOthersContent ==
    \E r, q \in Reqs :
        /\ r # q
        /\ epc[r] = "done"
        /\ ereq[r].filename = NoneValue
        /\ ereq[q].filename = NoneValue
        /\ ereq[r].content # ereq[q].content
        /\ eserved[r] = [format |-> "pdf", lines |-> ereq[q].content]

====
